---- MODULE Spec2Model ----
(***************************************************************************)
(* Model of the ELO bot of src/main.py: the players and match_history      *)
(* collections of the document store and the command handlers that read    *)
(* and write them.                                                         *)
(*                                                                         *)
(* Scheduling.  Every handler is a coroutine on one event loop, and the    *)
(* store client is the synchronous one (firestore.client(), line 23): a    *)
(* get(), a stream() and a batch.commit() block the loop instead of        *)
(* suspending the handler.  A handler can therefore be interleaved with    *)
(* another one only at its `await`s: ctx.defer() before its first read,    *)
(* ctx.followup.send() after its last write, and, inside                   *)
(* process_match_elo, the two `await update_tier_role(...)` of lines       *)
(* 160-161, which sit between the batch commit of line 155 and the write   *)
(* of the match record of line 164.  One action below is the code between  *)
(* two such points.                                                        *)
(***************************************************************************)
EXTENDS Integers, Sequences, FiniteSets, TLC

\* ---------------------------------------------------------------- constants
STARTING_ELO == 1200
K_FACTOR == 32
K_FACTOR_PROVISIONAL == 64
PROVISIONAL_MATCHES == 10
DECAY_DAYS_INACTIVE == 30
DECAY_AMOUNT == 25
\* length of the id that document() generates for a match record (line 163)
AutoIdLen == 20
\* match_doc.id[:6] (line 269)
ShownIdLen == 6
\* limit(5) and matches[:5] (lines 262-266)
RecentShown == 5

\* ------------------------------------------------------------------- bounds
\* number of process_match_elo calls that reach the batch commit (Spec)
MaxMatches == 1
\* the same in the ledger-only specification SpecLedger
MaxLedger == 2
\* number of set_elo calls on a registered player
MaxSets == 1
\* number of set_elo calls on a registered player in SpecDecay
MaxDecaySets == 2
\* last day of the clock
MaxTime == 31
\* number of committed matches in the head-to-head season of SpecDuel
MaxDuel == 11
\* events of a run of SpecTourney: matches reported, ratings set, tournaments
\* created, tournaments archived and the month passing, taken together
MaxEvents == 2

\* ------------------------------------------------------------------- inputs
\* the ids commands are given; "C" never registers
Users == {"A", "B", "C"}
Registrants == {"A", "B"}
Regions == {"NA", "EU", "AS"}
\* values an admin passes to /elo set (type=int, no range check)
SetValues == {-1}
\* days the clock can advance by in one step
TickDays == {DECAY_DAYS_INACTIVE + 1}
\* values an admin gives to players that the decay task then finds
DecayValues == {1100, 1210, 1250}
\* regional ratings and match counts of the players the rating function is
\* tried on: aggregates 800 .. 2050, either side of PROVISIONAL_MATCHES
RatingValues == {0, 300, 600, 900, 1170, 1185, 1200, 1203, 1215, 1230,
                 1500, 1800, 2400, 3000, 3750}
PlayedValues == {PROVISIONAL_MATCHES - 1, PROVISIONAL_MATCHES}
NoTourney == "None"
ProfileText == "text"
\* the clock of SpecActive: two steps that make 30 and 31 days between them
ShortDays == {DECAY_DAYS_INACTIVE \div 2, DECAY_DAYS_INACTIVE \div 2 + 1}
\* a rating above STARTING_ELO that /elo set gives a player who plays no match
IdleRating == STARTING_ELO + 2 * DECAY_AMOUNT
\* an option of /profile edit that is left out (None) or given empty
NotGiven == ""
EditText == "edited"
\* the members /profile edit is given: one registered, one never registered
EditMembers == {"A", "C"}
TourneyNames == {"cup"}
\* the users who press the sign-up button: one registered, one never registered
SignupUsers == {"A", "C"}
\* first, second and third place of /tournament archive
Podiums == {<<"A", "B", "C">>}

\* --------------------------------------------------------- documents (dict)
\* A document is a function from field names to values.
Get(doc, field, default) == IF field \in DOMAIN doc THEN doc[field] ELSE default

Put(doc, field, value) ==
    [f \in DOMAIN doc \cup {field} |-> IF f = field THEN value ELSE doc[f]]

\* firestore.Increment(n): an absent field counts as 0
Increment(doc, field, n) == Put(doc, field, Get(doc, field, 0) + n)

\* firestore.ArrayUnion([x])
ArrayUnion(doc, field, x) == Put(doc, field, Get(doc, field, {}) \cup {x})

\* f'elo_{region.lower()}'
elo_field(region) ==
    CASE region = "NA" -> "elo_na" [] region = "EU" -> "elo_eu" [] region = "AS" -> "elo_as"

\* f'wins_{region}' and f'losses_{region}': the region as passed, not lowered
wins_field(region) ==
    CASE region = "NA" -> "wins_NA" [] region = "EU" -> "wins_EU" [] region = "AS" -> "wins_AS"

losses_field(region) ==
    CASE region = "NA" -> "losses_NA" [] region = "EU" -> "losses_EU" [] region = "AS" -> "losses_AS"

EloFields == {"elo_na", "elo_eu", "elo_as"}

\* TIER_THRESHOLDS of lines 43-48, in the order of the dict
TIER_THRESHOLDS ==
    << <<"S-Tier", 1800>>, <<"A-Tier", 1600>>, <<"B-Tier", 1400>>, <<"C-Tier", 0>> >>

\* lines 102-105: the first tier whose threshold the rating reaches
get_player_tier(elo) ==
    LET reached == {i \in 1..Len(TIER_THRESHOLDS) : elo >= TIER_THRESHOLDS[i][2]}
    IN  IF reached = {} THEN "Unranked"
        ELSE TIER_THRESHOLDS[CHOOSE i \in reached : \A j \in reached : i <= j][1]

\* ------------------------------------------------------------- rating model
\* round(x / 3) for an integer x: x/3 is never halfway between two integers
RoundThird(x) == (2 * x + 3) \div 6

get_overall_elo(player_data) ==
    RoundThird(Get(player_data, "elo_na", STARTING_ELO)
             + Get(player_data, "elo_eu", STARTING_ELO)
             + Get(player_data, "elo_as", STARTING_ELO))

\* EloSteps64[v] is the least integer gap d = loser_elo - winner_elo for which
\* round(64 * (1 - 1 / (1 + 10 ** (d / 400)))) >= v (the expression of lines
\* 110-111 evaluated in double precision); EloSteps32 likewise for K = 32.
EloSteps64 ==
    << -841, -647, -556, -495, -448, -410, -378, -350, -325, -303, -282, -263,
       -245, -229, -213, -198, -183, -169, -156, -143, -130, -118, -106, -94,
       -82, -71, -60, -49, -38, -27, -16, -5, 6, 17, 28, 39, 50, 61, 72, 83,
       95, 107, 119, 131, 144, 157, 170, 184, 199, 214, 230, 246, 264, 283,
       304, 326, 351, 379, 411, 449, 496, 557, 648, 842 >>

EloSteps32 ==
    << -719, -523, -428, -364, -314, -273, -237, -205, -176, -149, -124, -100,
       -77, -54, -32, -10, 11, 33, 55, 78, 101, 125, 150, 177, 206, 238, 274,
       315, 365, 429, 524, 720 >>

\* round(k_factor * (1 - expected_win)) as a function of the rating gap
RoundedGain(k_factor, gap) ==
    LET steps == IF k_factor = K_FACTOR_PROVISIONAL THEN EloSteps64 ELSE EloSteps32
    IN  Cardinality({v \in 1..Len(steps) : gap >= steps[v]})

\* variant: the provisional K only when both players are provisional
calculate_elo_change_both(winner_data, loser_data) ==
    LET winner_elo == get_overall_elo(winner_data)
        loser_elo == get_overall_elo(loser_data)
        k_factor == IF /\ Get(winner_data, "matches_played", 0) < PROVISIONAL_MATCHES
                       /\ Get(loser_data, "matches_played", 0) < PROVISIONAL_MATCHES
                    THEN K_FACTOR_PROVISIONAL ELSE K_FACTOR
    IN  RoundedGain(k_factor, loser_elo - winner_elo)

\* variant: the expected score taken from the winner's side of the gap
calculate_elo_change_swapped(winner_data, loser_data) ==
    LET winner_elo == get_overall_elo(winner_data)
        loser_elo == get_overall_elo(loser_data)
        k_factor == IF \/ Get(winner_data, "matches_played", 0) < PROVISIONAL_MATCHES
                       \/ Get(loser_data, "matches_played", 0) < PROVISIONAL_MATCHES
                    THEN K_FACTOR_PROVISIONAL ELSE K_FACTOR
    IN  RoundedGain(k_factor, winner_elo - loser_elo)

calculate_elo_change(winner_data, loser_data) ==
    LET winner_elo == get_overall_elo(winner_data)
        loser_elo == get_overall_elo(loser_data)
        k_factor == IF \/ Get(winner_data, "matches_played", 0) < PROVISIONAL_MATCHES
                       \/ Get(loser_data, "matches_played", 0) < PROVISIONAL_MATCHES
                    THEN K_FACTOR_PROVISIONAL ELSE K_FACTOR
    IN  RoundedGain(k_factor, loser_elo - winner_elo)

Max(a, b) == IF a >= b THEN a ELSE b

\* -------------------------------------------------------------------- state
VARIABLES
    players,        \* collection 'players': user id -> document
    match_history,  \* collection 'match_history': match id -> document
    pending,        \* process_match_elo calls suspended in update_tier_role
    nextId,         \* number of the next process_match_elo call that commits
    now,            \* the clock, in days
    setCount,       \* set_elo calls made on a registered player
    last,           \* the reply of the handler that ran last
    ledger,         \* history: every committed batch of process_match_elo
    took_part,      \* history: players of at least one committed match
    trip,           \* history: the match applied last and what it replaced
    tournaments,    \* collection 'tournaments': tournament id -> document
    hall_of_fame    \* collection 'hall_of_fame': the archived results, in order

vars == <<players, match_history, pending, nextId, now, setCount, last,
          ledger, took_part, trip, tournaments, hall_of_fame>>

NoTrip == [stage |-> "none"]

\* arg is the match id a reply is about, 0 when it is about none
Reply(op, arg, res) == [op |-> op, arg |-> arg, res |-> res]

Init ==
    /\ players = <<>>
    /\ match_history = <<>>
    /\ pending = <<>>
    /\ nextId = 1
    /\ now = 0
    /\ setCount = 0
    /\ last = Reply("on_ready", 0, "ok")
    /\ ledger = <<>>
    /\ took_part = {}
    /\ trip = NoTrip
    /\ tournaments = <<>>
    /\ hall_of_fame = <<>>

\* ----------------------------------------------------------------- register
new_player_data(user) ==
    [discord_id |-> user, discord_name |-> user, roblox_username |-> ProfileText,
     clan |-> ProfileText, country |-> ProfileText,
     elo_na |-> STARTING_ELO, elo_eu |-> STARTING_ELO, elo_as |-> STARTING_ELO,
     wins |-> 0, wins_na |-> 0, wins_eu |-> 0, wins_as |-> 0,
     losses |-> 0, losses_na |-> 0, losses_eu |-> 0, losses_as |-> 0,
     matches_played |-> 0, tournaments_participated |-> {},
     last_played_date |-> now, current_win_streak |-> 0,
     current_loss_streak |-> 0, best_win_streak |-> 0]

\* variant: the document is set without the exists() test
register_overwrites(user) ==
    /\ players' = (user :> new_player_data(user)) @@ players
    /\ last' = Reply("register", 0, "ok")
    /\ trip' = NoTrip
    /\ UNCHANGED <<match_history, pending, nextId, now, setCount, ledger, took_part, tournaments, hall_of_fame>>

register(user) ==
    /\ IF user \in DOMAIN players
       THEN /\ last' = Reply("register", 0, "You are already registered!")
            /\ UNCHANGED players
       ELSE /\ players' = (user :> new_player_data(user)) @@ players
            /\ last' = Reply("register", 0, "ok")
    /\ trip' = NoTrip
    /\ UNCHANGED <<match_history, pending, nextId, now, setCount, ledger, took_part, tournaments, hall_of_fame>>

\* -------------------------------------------------------- process_match_elo
Without(f, key) == [k \in DOMAIN f \ {key} |-> f[k]]

\* batch.update(winner_ref, update_winner): `doc` is the stored document the
\* transforms are applied to, `winner_data` the copy read at line 137
\* variant: the streak counted without moving the best streak
update_winner_forgets_best(doc, winner_data, region, elo_change, tourney_id) ==
    LET w_streak == Get(winner_data, "current_win_streak", 0) + 1
        d1 == Increment(doc, elo_field(region), elo_change)
        d2 == Increment(d1, "wins", 1)
        d3 == Increment(d2, wins_field(region), 1)
        d4 == Increment(d3, "matches_played", 1)
        d5 == Put(d4, "last_played_date", now)
        d6 == Put(d5, "current_win_streak", w_streak)
        d8 == Put(d6, "current_loss_streak", 0)
    IN  IF /\ tourney_id # NoTourney
           /\ tourney_id \notin Get(winner_data, "tournaments_participated", {})
        THEN ArrayUnion(d8, "tournaments_participated", tourney_id)
        ELSE d8

update_winner(doc, winner_data, region, elo_change, tourney_id) ==
    LET w_streak == Get(winner_data, "current_win_streak", 0) + 1
        w_best_streak == Max(w_streak, Get(winner_data, "best_win_streak", 0))
        d1 == Increment(doc, elo_field(region), elo_change)
        d2 == Increment(d1, "wins", 1)
        d3 == Increment(d2, wins_field(region), 1)
        d4 == Increment(d3, "matches_played", 1)
        d5 == Put(d4, "last_played_date", now)
        d6 == Put(d5, "current_win_streak", w_streak)
        d7 == Put(d6, "best_win_streak", w_best_streak)
        d8 == Put(d7, "current_loss_streak", 0)
    IN  IF /\ tourney_id # NoTourney
           /\ tourney_id \notin Get(winner_data, "tournaments_participated", {})
        THEN ArrayUnion(d8, "tournaments_participated", tourney_id)
        ELSE d8

\* variant: the loser's rating written as a value computed from the copy read
update_loser_overwrites(doc, loser_data, region, elo_change, tourney_id) ==
    LET d1 == Put(doc, elo_field(region),
                  Get(loser_data, elo_field(region), STARTING_ELO) - elo_change)
        d2 == Increment(d1, "losses", 1)
        d3 == Increment(d2, losses_field(region), 1)
        d4 == Increment(d3, "matches_played", 1)
        d5 == Put(d4, "last_played_date", now)
        d6 == Increment(d5, "current_loss_streak", 1)
    IN  Put(d6, "current_win_streak", 0)

\* variant: the loser's win streak is not reset
update_loser_keeps_win_streak(doc, loser_data, region, elo_change, tourney_id) ==
    LET d1 == Increment(doc, elo_field(region), -elo_change)
        d2 == Increment(d1, "losses", 1)
        d3 == Increment(d2, losses_field(region), 1)
        d4 == Increment(d3, "matches_played", 1)
        d5 == Put(d4, "last_played_date", now)
    IN  Increment(d5, "current_loss_streak", 1)

\* variant: the loser gives up one point less than the winner gains
update_loser_cushioned(doc, loser_data, region, elo_change, tourney_id) ==
    LET d1 == Increment(doc, elo_field(region), -(elo_change - 1))
        d2 == Increment(d1, "losses", 1)
        d3 == Increment(d2, losses_field(region), 1)
        d4 == Increment(d3, "matches_played", 1)
        d5 == Put(d4, "last_played_date", now)
        d6 == Increment(d5, "current_loss_streak", 1)
        d7 == Put(d6, "current_win_streak", 0)
    IN  IF /\ tourney_id # NoTourney
           /\ tourney_id \notin Get(loser_data, "tournaments_participated", {})
        THEN ArrayUnion(d7, "tournaments_participated", tourney_id)
        ELSE d7

\* batch.update(loser_ref, update_loser)
update_loser(doc, loser_data, region, elo_change, tourney_id) ==
    LET d1 == Increment(doc, elo_field(region), -elo_change)
        d2 == Increment(d1, "losses", 1)
        d3 == Increment(d2, losses_field(region), 1)
        d4 == Increment(d3, "matches_played", 1)
        d5 == Put(d4, "last_played_date", now)
        d6 == Increment(d5, "current_loss_streak", 1)
        d7 == Put(d6, "current_win_streak", 0)
    IN  IF /\ tourney_id # NoTourney
           /\ tourney_id \notin Get(loser_data, "tournaments_participated", {})
        THEN ArrayUnion(d7, "tournaments_participated", tourney_id)
        ELSE d7

\* variant: a player who is winner and loser gets the two updates as one
\* write, whose Increment of matches_played is applied once
commit_match_merged(winner_id, loser_id, region, elo_change, tourney_id) ==
    LET winner_data == players[winner_id]
        loser_data == players[loser_id]
        p1 == [players EXCEPT ![winner_id] =
                  update_winner(@, winner_data, region, elo_change, tourney_id)]
        p2 == [p1 EXCEPT ![loser_id] =
                  update_loser(@, loser_data, region, elo_change, tourney_id)]
    IN  IF winner_id = loser_id
        THEN [p2 EXCEPT ![loser_id] = Increment(@, "matches_played", -1)]
        ELSE p2

\* the players collection after batch.commit(): the two updates in the order
\* they were added to the batch
commit_match(winner_id, loser_id, region, elo_change, tourney_id) ==
    LET winner_data == players[winner_id]
        loser_data == players[loser_id]
        p1 == [players EXCEPT ![winner_id] =
                  update_winner(@, winner_data, region, elo_change, tourney_id)]
    IN  [p1 EXCEPT ![loser_id] =
            update_loser(@, loser_data, region, elo_change, tourney_id)]

\* what the return trip of a match has to give back
Snapshot(doc, region) ==
    [elo |-> doc[elo_field(region)], wins |-> doc["wins"],
     losses |-> doc["losses"], matches_played |-> doc["matches_played"]]

\* line 135: the early return
match_not_found ==
    /\ last' = Reply("report_match", 0, "Winner or loser not found in database.")
    /\ trip' = NoTrip
    /\ UNCHANGED <<players, match_history, pending, nextId, now, setCount,
                   ledger, took_part, tournaments, hall_of_fame>>

\* lines 137-161: the batch commit, then the suspension in update_tier_role
match_commit(winner_id, loser_id, region, tourney_id) ==
    LET elo_change == calculate_elo_change(players[winner_id], players[loser_id])
        call == [winner_id |-> winner_id, loser_id |-> loser_id,
                 elo_change |-> elo_change, region |-> region,
                 tournament_id |-> tourney_id]
    IN  /\ players' = commit_match(winner_id, loser_id, region, elo_change, tourney_id)
        /\ pending' = (nextId :> call) @@ pending
        /\ nextId' = nextId + 1
        /\ last' = Reply("process_match_elo", nextId, "awaiting update_tier_role")
        /\ ledger' = (nextId :> [winner_id |-> winner_id, loser_id |-> loser_id,
                                 region |-> region, elo_change |-> elo_change,
                                 undone |-> 0, raced |-> pending # <<>>]) @@ ledger
        /\ took_part' = took_part \cup {winner_id, loser_id}
        /\ trip' = [stage |-> "committed", id |-> nextId,
                    winner_id |-> winner_id, loser_id |-> loser_id,
                    region |-> region,
                    winner_before |-> Snapshot(players[winner_id], region),
                    loser_before |-> Snapshot(players[loser_id], region)]
        /\ UNCHANGED <<match_history, now, setCount, tournaments, hall_of_fame>>

\* variant: the loser is looked up only after the winner has been written
process_match_elo_checks_late(winner_id, loser_id, region, tourney_id) ==
    IF winner_id \notin DOMAIN players
    THEN match_not_found
    ELSE IF loser_id \notin DOMAIN players
         THEN /\ players' = [players EXCEPT ![winner_id] = Increment(@, "wins", 1)]
              /\ last' = Reply("report_match", 0, "Winner or loser not found in database.")
              /\ trip' = NoTrip
              /\ UNCHANGED <<match_history, pending, nextId, now, setCount,
                             ledger, took_part, tournaments, hall_of_fame>>
         ELSE match_commit(winner_id, loser_id, region, tourney_id)

\* lines 130-161, up to the first suspension
process_match_elo(winner_id, loser_id, region, tourney_id) ==
    IF ~(winner_id \in DOMAIN players /\ loser_id \in DOMAIN players)
    THEN match_not_found
    ELSE match_commit(winner_id, loser_id, region, tourney_id)

\* /elo report_match, lines 279-284: no tournament id
report_match(winner, loser, region) ==
    process_match_elo(winner, loser, region, NoTourney)

\* the document written at line 164
match_record(call) ==
    [winner_id |-> call.winner_id, loser_id |-> call.loser_id,
     elo_change |-> call.elo_change, region |-> call.region,
     timestamp |-> now, tournament_id |-> call.tournament_id]

\* lines 163-165 and the reply of report_match: update_tier_role returned
process_match_record(id) ==
    /\ id \in DOMAIN pending
    /\ match_history' = (id :> match_record(pending[id])) @@ match_history
    /\ pending' = Without(pending, id)
    /\ last' = Reply("report_match", id, "ok")
    /\ trip' = IF trip.stage = "committed" /\ trip.id = id
               THEN [trip EXCEPT !.stage = "applied"] ELSE NoTrip
    /\ UNCHANGED <<players, nextId, now, setCount, ledger, took_part, tournaments, hall_of_fame>>

\* lines 125-127 raise (discord.Forbidden, discord.HTTPException): the
\* exception leaves process_match_elo and report_match before line 163
tier_role_error(id) ==
    /\ id \in DOMAIN pending
    /\ pending' = Without(pending, id)
    /\ last' = Reply("report_match", id, "exception")
    /\ trip' = NoTrip
    /\ UNCHANGED <<players, match_history, nextId, now, setCount, ledger, took_part, tournaments, hall_of_fame>>

\* ------------------------------------------------------------- revert_match
\* variant: the loser keeps the reverted match in matches_played
revert_players_keeps_played(match_data) ==
    LET field == elo_field(match_data.region)
        elo_change == match_data.elo_change
        p1 == [players EXCEPT ![match_data.winner_id] =
                  Increment(Increment(Increment(@, field, -elo_change),
                                      "wins", -1), "matches_played", -1)]
    IN  [p1 EXCEPT ![match_data.loser_id] =
            Increment(Increment(@, field, elo_change), "losses", -1)]

\* variant: the delta computed again from the players as they are now
revert_players_recomputes(match_data) ==
    LET field == elo_field(match_data.region)
        elo_change == calculate_elo_change(players[match_data.winner_id],
                                           players[match_data.loser_id])
        p1 == [players EXCEPT ![match_data.winner_id] =
                  Increment(Increment(Increment(@, field, -elo_change),
                                      "wins", -1), "matches_played", -1)]
    IN  [p1 EXCEPT ![match_data.loser_id] =
            Increment(Increment(Increment(@, field, elo_change),
                                "losses", -1), "matches_played", -1)]

\* variant: the winner's streak taken back together with the win
revert_players_unwinds_streak(match_data) ==
    LET field == elo_field(match_data.region)
        elo_change == match_data.elo_change
        p1 == [players EXCEPT ![match_data.winner_id] =
                  Increment(Increment(Increment(Increment(@, field, -elo_change),
                                      "wins", -1), "matches_played", -1),
                            "current_win_streak", -1)]
    IN  [p1 EXCEPT ![match_data.loser_id] =
            Increment(Increment(Increment(@, field, elo_change),
                                "losses", -1), "matches_played", -1)]

\* the two batch.update of lines 414-415, in order
revert_players(match_data) ==
    LET field == elo_field(match_data.region)
        elo_change == match_data.elo_change
        p1 == [players EXCEPT ![match_data.winner_id] =
                  Increment(Increment(Increment(@, field, -elo_change),
                                      "wins", -1), "matches_played", -1)]
    IN  [p1 EXCEPT ![match_data.loser_id] =
            Increment(Increment(Increment(@, field, elo_change),
                                "losses", -1), "matches_played", -1)]

\* line 407: the early return
revert_not_found(match_id) ==
    /\ last' = Reply("revert_match", match_id, "Error: Match ID not found.")
    /\ trip' = NoTrip
    /\ UNCHANGED <<players, match_history, pending, nextId, now, setCount,
                   ledger, took_part, tournaments, hall_of_fame>>

\* what a revert leaves in the history variables
revert_noted(match_id) ==
    /\ last' = Reply("revert_match", match_id, "ok")
    /\ ledger' = [ledger EXCEPT ![match_id].undone = @ + 1,
                                ![match_id].raced = @ \/ pending # <<>>]
    /\ trip' = IF trip.stage = "applied" /\ trip.id = match_id
               THEN [trip EXCEPT !.stage = "reverted"] ELSE NoTrip
    /\ UNCHANGED <<pending, nextId, now, setCount, took_part, tournaments, hall_of_fame>>

\* variant: the batch without its delete
revert_match_keeps_record(match_id) ==
    IF match_id \notin DOMAIN match_history
    THEN revert_not_found(match_id)
    ELSE /\ players' = revert_players(match_history[match_id])
         /\ UNCHANGED match_history
         /\ revert_noted(match_id)

\* variant: the rematches of the same two players deleted with the record
revert_match_clears_pair(match_id) ==
    IF match_id \notin DOMAIN match_history
    THEN revert_not_found(match_id)
    ELSE /\ players' = revert_players(match_history[match_id])
         /\ match_history' =
               [id \in {i \in DOMAIN match_history :
                          \/ match_history[i].winner_id # match_history[match_id].winner_id
                          \/ match_history[i].loser_id # match_history[match_id].loser_id}
                  |-> match_history[id]]
         /\ revert_noted(match_id)

revert_match(match_id) ==
    IF match_id \notin DOMAIN match_history
    THEN revert_not_found(match_id)
    ELSE /\ players' = revert_players(match_history[match_id])
         /\ match_history' = Without(match_history, match_id)
         /\ revert_noted(match_id)

\* ------------------------------------------------------------- view_profile
\* the id of the record of the call numbered n.  The client draws its
\* characters at random; the model writes n in every place, so that two ids
\* differ in every character and a lookup can tell them by any prefix.
auto_id(n) == [i \in 1..AutoIdLen |-> n]

\* what the profile prints for a match (line 269)
shown_id(id) == SubSeq(auto_id(id), 1, ShownIdLen)

\* db.collection('match_history').document(name).get()
document_named(name) == {id \in DOMAIN match_history : auto_id(id) = name}

\* lines 262-266: the matches of the player that fewer than RecentShown of
\* their matches are newer than
recent_matches(player) ==
    {id \in DOMAIN match_history :
        /\ player \in {match_history[id].winner_id, match_history[id].loser_id}
        /\ Cardinality({other \in DOMAIN match_history :
               /\ player \in {match_history[other].winner_id,
                               match_history[other].loser_id}
               /\ match_history[other].timestamp > match_history[id].timestamp})
              < RecentShown}

view_profile(player) ==
    /\ last' = Reply("view_profile", 0,
                     IF player \in DOMAIN players THEN "ok"
                     ELSE "That player is not registered.")
    /\ trip' = NoTrip
    /\ UNCHANGED <<players, match_history, pending, nextId, now, setCount,
                   ledger, took_part, tournaments, hall_of_fame>>

\* revert_match given a document name; `about` is the match the name was
\* read from
revert_match_named(name, about) ==
    IF document_named(name) = {}
    THEN revert_not_found(about)
    ELSE \E id \in document_named(name) : revert_match(id)

\* the admin passes revert_match the id a profile shows for a match
revert_profile_id(player, id) ==
    /\ player \in DOMAIN players
    /\ id \in recent_matches(player)
    /\ revert_match_named(shown_id(id), id)

\* ------------------------------------------------------------------ set_elo
\* variant: the override also counts as activity of the player
set_elo_touches_date(player, region, value) ==
    /\ IF player \notin DOMAIN players
       THEN /\ last' = Reply("set_elo", 0, "Player not found.")
            /\ UNCHANGED <<players, setCount>>
       ELSE /\ players' = [players EXCEPT ![player] =
                              Put(Put(@, elo_field(region), value),
                                  "last_played_date", now)]
            /\ setCount' = setCount + 1
            /\ last' = Reply("set_elo", 0, "ok")
    /\ trip' = NoTrip
    /\ UNCHANGED <<match_history, pending, nextId, now, ledger, took_part, tournaments, hall_of_fame>>

set_elo(player, region, value) ==
    /\ IF player \notin DOMAIN players
       THEN /\ last' = Reply("set_elo", 0, "Player not found.")
            /\ UNCHANGED <<players, setCount>>
       ELSE /\ players' = [players EXCEPT ![player] = Put(@, elo_field(region), value)]
            /\ setCount' = setCount + 1
            /\ last' = Reply("set_elo", 0, "ok")
    /\ trip' = NoTrip
    /\ UNCHANGED <<match_history, pending, nextId, now, ledger, took_part, tournaments, hall_of_fame>>

\* ---------------------------------------------------------- daily_elo_decay
\* variant: the decay amount subtracted without the floor
decay_update_crosses(player_data) ==
    [f \in DOMAIN player_data |->
        IF f \in EloFields /\ player_data[f] > STARTING_ELO
        THEN player_data[f] - DECAY_AMOUNT
        ELSE player_data[f]]

\* variant: a rating is decayed only while a whole step fits above the floor
decay_update_stops_short(player_data) ==
    [f \in DOMAIN player_data |->
        IF f \in EloFields /\ player_data[f] >= STARTING_ELO + DECAY_AMOUNT
        THEN player_data[f] - DECAY_AMOUNT
        ELSE player_data[f]]

\* variant: a rating above the floor is put back on the floor at once
decay_update_resets(player_data) ==
    [f \in DOMAIN player_data |->
        IF f \in EloFields /\ player_data[f] > STARTING_ELO
        THEN STARTING_ELO
        ELSE player_data[f]]

\* variant: the run decays the rating the report in flight read before its
\* batch, and writes the result over the increment of that batch
decay_update_stale(player_data) ==
    LET stale(f) ==
            IF /\ trip.stage \in {"committed", "applied"}
               /\ trip.winner_id = player_data["discord_id"]
               /\ f = elo_field(trip.region)
            THEN trip.winner_before.elo ELSE player_data[f]
    IN  [f \in DOMAIN player_data |->
            IF f \in EloFields /\ player_data[f] > STARTING_ELO
            THEN Max(STARTING_ELO, stale(f) - DECAY_AMOUNT)
            ELSE player_data[f]]

\* update_data of lines 176-179 applied to the document
decay_update(player_data) ==
    [f \in DOMAIN player_data |->
        IF f \in EloFields /\ player_data[f] > STARTING_ELO
        THEN Max(STARTING_ELO, player_data[f] - DECAY_AMOUNT)
        ELSE player_data[f]]

\* variant: every player who did not play today is selected
players_to_decay_idle_today ==
    {p \in DOMAIN players : players[p]["last_played_date"] < now}

players_to_decay ==
    {p \in DOMAIN players : players[p]["last_played_date"] < now - DECAY_DAYS_INACTIVE}

daily_elo_decay ==
    /\ players' = [p \in DOMAIN players |->
                      IF p \in players_to_decay THEN decay_update(players[p])
                      ELSE players[p]]
    /\ last' = Reply("daily_elo_decay", 0,
                     IF \E p \in players_to_decay : decay_update(players[p]) # players[p]
                     THEN "decayed" ELSE "nothing to decay")
    /\ trip' = NoTrip
    /\ UNCHANGED <<match_history, pending, nextId, now, setCount, ledger, took_part, tournaments, hall_of_fame>>

\* -------------------------------------------------------------------- clock
Tick(days) ==
    /\ now + days <= MaxTime
    /\ now' = now + days
    /\ UNCHANGED <<players, match_history, pending, nextId, setCount, last,
                   ledger, took_part, trip, tournaments, hall_of_fame>>

\* ---------------------------------------------------------------- elo_graph
matches_of(player) ==
    {id \in DOMAIN match_history :
        player \in {match_history[id].winner_id, match_history[id].loser_id}}

\* lines 323-333: the before-rating of the oldest match seeds the graph
elo_graph(player) ==
    /\ IF matches_of(player) = {}
       THEN last' = Reply("elo_graph", 0, "No match history found for this player to generate a graph.")
       ELSE \E first \in matches_of(player) :
               /\ \A id \in matches_of(player) :
                     match_history[first].timestamp <= match_history[id].timestamp
               /\ LET first_match_data == match_history[first]
                      key == IF first_match_data.winner_id = player
                             THEN "winner_elo_before" ELSE "loser_elo_before"
                  IN  last' = Reply("elo_graph", first,
                                    IF key \in DOMAIN first_match_data
                                    THEN "ok" ELSE "KeyError")
    /\ trip' = NoTrip
    /\ UNCHANGED <<players, match_history, pending, nextId, now, setCount,
                   ledger, took_part, tournaments, hall_of_fame>>

\* ------------------------------------------------------------- edit_profile
\* lines 393-395: an option that is falsy adds nothing to update_data
update_data(new_roblox_username, new_clan, new_country) ==
    LET given == [roblox_username |-> new_roblox_username, clan |-> new_clan,
                  country |-> new_country]
    IN  [f \in {g \in DOMAIN given : given[g] # NotGiven} |-> given[f]]

\* player_ref.update(update_data)
Update(doc, data) ==
    [f \in DOMAIN doc \cup DOMAIN data |-> IF f \in DOMAIN data THEN data[f] ELSE doc[f]]

\* lines 389-398
edit_profile(member, new_roblox_username, new_clan, new_country) ==
    /\ IF member \notin DOMAIN players
       THEN /\ last' = Reply("edit_profile", 0, "Player not found.")
            /\ UNCHANGED players
       ELSE IF update_data(new_roblox_username, new_clan, new_country) = <<>>
       THEN /\ last' = Reply("edit_profile", 0, "You must provide at least one field to edit.")
            /\ UNCHANGED players
       ELSE /\ players' = [players EXCEPT ![member] =
                              Update(@, update_data(new_roblox_username, new_clan, new_country))]
            /\ last' = Reply("edit_profile", 0, "ok")
    /\ trip' = NoTrip
    /\ UNCHANGED <<match_history, pending, nextId, now, setCount, ledger,
                   took_part, tournaments, hall_of_fame>>

\* -------------------------------------------------------------- tournaments
\* Tournament ids are numbered in the order of creation. Of the options of
\* /tournament create the document keeps the name here; description, rewards,
\* bracket_url, start_timestamp and participant_role_id are stored as given
\* and read by no command that writes a collection.
\* lines 442-463, with a start_time that parses or does not
create_tournament(name, start_time_parses) ==
    /\ IF ~start_time_parses
       THEN /\ last' = Reply("create_tournament", 0, "Invalid start_time format.")
            /\ UNCHANGED tournaments
       ELSE LET id == Cardinality(DOMAIN tournaments) + 1
            IN  /\ tournaments' = (id :> [name |-> name, status |-> "announced",
                                          participants |-> {}]) @@ tournaments
                /\ last' = Reply("create_tournament", id, "ok")
    /\ trip' = NoTrip
    /\ UNCHANGED <<players, match_history, pending, nextId, now, setCount, ledger,
                   took_part, hall_of_fame>>

\* lines 470-486: the update follows the await of channel.send; the document
\* is never deleted, so the step is taken where the update is made
open_signups(tournament_id) ==
    /\ IF tournament_id \notin DOMAIN tournaments
       THEN /\ last' = Reply("open_signups", tournament_id, "Invalid tournament ID.")
            /\ UNCHANGED tournaments
       ELSE /\ tournaments' = [tournaments EXCEPT ![tournament_id] =
                                  Update(@, [status |-> "signups_open",
                                             signup_message_id |-> tournament_id])]
            /\ last' = Reply("open_signups", tournament_id, "ok")
    /\ trip' = NoTrip
    /\ UNCHANGED <<players, match_history, pending, nextId, now, setCount, ledger,
                   took_part, hall_of_fame>>

\* lines 72-97: the button exists once the sign-up message has been posted;
\* close_signups removes it only if the message can still be edited
signup_button(user, tournament_id) ==
    /\ tournament_id \in DOMAIN tournaments
    /\ "signup_message_id" \in DOMAIN tournaments[tournament_id]
    /\ IF user \notin DOMAIN players
       THEN /\ last' = Reply("signup_button", tournament_id,
                             "You must be registered first.")
            /\ UNCHANGED tournaments
       ELSE /\ tournaments' = [tournaments EXCEPT ![tournament_id] =
                                  ArrayUnion(@, "participants", user)]
            /\ last' = Reply("signup_button", tournament_id, "ok")
    /\ trip' = NoTrip
    /\ UNCHANGED <<players, match_history, pending, nextId, now, setCount, ledger,
                   took_part, hall_of_fame>>

\* lines 492-507
close_signups(tournament_id) ==
    /\ IF tournament_id \notin DOMAIN tournaments
       THEN /\ last' = Reply("close_signups", tournament_id, "Invalid tournament ID.")
            /\ UNCHANGED tournaments
       ELSE /\ tournaments' = [tournaments EXCEPT ![tournament_id] =
                                  Update(@, [status |-> "signups_closed"])]
            /\ last' = Reply("close_signups", tournament_id, "ok")
    /\ trip' = NoTrip
    /\ UNCHANGED <<players, match_history, pending, nextId, now, setCount, ledger,
                   took_part, hall_of_fame>>

\* lines 515-535: the two writes follow the awaits of the role removal
archive_tournament(tournament_id, first_place, second_place, third_place) ==
    /\ IF tournament_id \notin DOMAIN tournaments
       THEN /\ last' = Reply("archive_tournament", tournament_id, "Invalid tournament ID.")
            /\ UNCHANGED <<tournaments, hall_of_fame>>
       ELSE /\ hall_of_fame' = Append(hall_of_fame,
                                  [name |-> tournaments[tournament_id].name, date |-> now,
                                   first_place_id |-> first_place,
                                   second_place_id |-> second_place,
                                   third_place_id |-> third_place])
            /\ tournaments' = [tournaments EXCEPT ![tournament_id] =
                                  Update(@, [status |-> "archived"])]
            /\ last' = Reply("archive_tournament", tournament_id, "ok")
    /\ trip' = NoTrip
    /\ UNCHANGED <<players, match_history, pending, nextId, now, setCount, ledger,
                   took_part>>

\* -------------------------------------------------------------------- specs
\* the region the commands of Spec, and /elo set in SpecMatch, are given
HomeRegion == {"NA"}

\* the regions the reports of SpecLedger are given
TwoRegions == {"NA", "EU"}

\* the commands that write ratings, the decay task and the clock
Next ==
    \/ \E user \in Registrants : register(user)
    \/ \E winner \in Users, loser \in Users, region \in HomeRegion :
          nextId <= MaxMatches /\ report_match(winner, loser, region)
    \/ \E id \in DOMAIN pending : process_match_record(id)
    \/ \E id \in DOMAIN pending : tier_role_error(id)
    \/ \E match_id \in 1..nextId : revert_match(match_id)
    \/ \E player \in Users, region \in HomeRegion, value \in SetValues :
          setCount < MaxSets /\ set_elo(player, region, value)
    \/ daily_elo_decay
    \/ \E days \in TickDays : Tick(days)

Spec == Init /\ [][Next]_vars

\* the match commands in every region, /elo set and the rating graph
NextMatch ==
    \/ \E user \in Registrants : register(user)
    \/ \E winner \in Users, loser \in Users, region \in Regions :
          nextId <= MaxMatches /\ report_match(winner, loser, region)
    \/ \E id \in DOMAIN pending : process_match_record(id)
    \/ \E id \in DOMAIN pending : tier_role_error(id)
    \/ \E match_id \in 1..nextId : revert_match(match_id)
    \/ \E player \in Registrants, region \in HomeRegion, value \in SetValues :
          setCount < MaxSets /\ set_elo(player, region, value)
    \/ \E player \in Registrants : elo_graph(player)

SpecMatch == Init /\ [][NextMatch]_vars

\* the match ledger under concurrent reports and reverts: the two players in
\* both orders and one report of a player against themselves
LedgerPairs == {<<"A", "B">>, <<"B", "A">>, <<"A", "A">>}

NextLedger ==
    \/ \E user \in Registrants : register(user)
    \/ \E pair \in LedgerPairs, region \in TwoRegions :
          nextId <= MaxLedger /\ report_match(pair[1], pair[2], region)
    \/ \E id \in DOMAIN pending : process_match_record(id)
    \/ \E id \in DOMAIN pending : tier_role_error(id)
    \/ \E match_id \in 1..nextId : revert_match(match_id)

SpecLedger == Init /\ [][NextLedger]_vars

\* a season in one region: "A" beats "B" or "C" beats "A", MaxDuel times
DuelPairs == {<<"A", "B">>, <<"C", "A">>}

NextDuel ==
    \/ \E user \in Users : register(user)
    \/ \E pair \in DuelPairs, region \in Regions :
          /\ nextId <= MaxDuel
          /\ pending = <<>>
          /\ \A id \in DOMAIN ledger : ledger[id].region = region
          /\ report_match(pair[1], pair[2], region)
    \/ \E id \in DOMAIN pending : process_match_record(id)

SpecDuel == Init /\ [][NextDuel]_vars

\* the decay task on ratings an admin has set; the task runs every 24 hours
\* (tasks.loop, line 167)
NextDecay ==
    \/ \E user \in Registrants : register(user)
    \/ \E player \in Registrants, region \in Regions, value \in DecayValues :
          setCount < MaxDecaySets /\ set_elo(player, region, value)
    \/ daily_elo_decay
    \/ \E days \in TickDays : Tick(days)

SpecDecay == Init /\ [][NextDecay]_vars /\ WF_vars(daily_elo_decay)

\* profiles and the reverts an admin makes from what they show
NextProfile ==
    \/ \E user \in Registrants : register(user)
    \/ \E winner \in Registrants, loser \in Registrants, region \in HomeRegion :
          nextId <= MaxMatches /\ report_match(winner, loser, region)
    \/ \E id \in DOMAIN pending : process_match_record(id)
    \/ \E id \in DOMAIN pending : tier_role_error(id)
    \/ \E player \in Users : view_profile(player)
    \/ \E player \in Registrants, id \in DOMAIN match_history :
          revert_profile_id(player, id)
    \/ \E match_id \in 1..nextId : revert_match(match_id)

SpecProfile == Init /\ [][NextProfile]_vars

\* the rating function on two players as a season and /elo set left them:
\* `played` matches won, the rating of one region set
rated_player(user, elo, played) ==
    [new_player_data(user) EXCEPT !["elo_na"] = elo, !["matches_played"] = played,
                                  !["wins"] = played, !["current_win_streak"] = played,
                                  !["best_win_streak"] = played]

InitRating ==
    /\ now = 0
    /\ \E elo_a \in RatingValues, elo_b \in RatingValues,
          played_a \in PlayedValues, played_b \in PlayedValues :
          players = ("A" :> rated_player("A", elo_a, played_a))
                    @@ ("B" :> rated_player("B", elo_b, played_b))
    /\ match_history = <<>>
    /\ pending = <<>>
    /\ nextId = 1
    /\ setCount = 0
    /\ last = Reply("on_ready", 0, "ok")
    /\ ledger = <<>>
    /\ took_part = {}
    /\ trip = NoTrip
    /\ tournaments = <<>>
    /\ hall_of_fame = <<>>

\* lines 137-139: the two documents read and handed to calculate_elo_change
rate_match(winner_id, loser_id) ==
    /\ last' = Reply("calculate_elo_change",
                     calculate_elo_change(players[winner_id], players[loser_id]), "ok")
    /\ UNCHANGED <<players, match_history, pending, nextId, now, setCount,
                   ledger, took_part, trip, tournaments, hall_of_fame>>

NextRating ==
    \E winner \in Registrants, loser \in Registrants : rate_match(winner, loser)

SpecRating == InitRating /\ [][NextRating]_vars

\* every command of the bot in one run: profiles edited and tournaments run
\* while matches are reported, ratings set and the decay task runs
TourneyPairs == {<<"A", "B">>, <<"A", "A">>}
TourneyRated == {"A"}

Events ==
    (nextId - 1) + setCount + Cardinality(DOMAIN tournaments) + Len(hall_of_fame)
    + (IF now > 0 THEN 1 ELSE 0)

NextTourney ==
    \/ \E user \in Registrants : register(user)
    \/ \E pair \in TourneyPairs, region \in HomeRegion :
          Events < MaxEvents /\ report_match(pair[1], pair[2], region)
    \/ \E id \in DOMAIN pending : process_match_record(id)
    \/ \E match_id \in 1..nextId : revert_match(match_id)
    \/ \E player \in TourneyRated, region \in HomeRegion, value \in SetValues :
          Events < MaxEvents /\ set_elo(player, region, value)
    \/ daily_elo_decay
    \/ \E days \in TickDays : Events < MaxEvents /\ Tick(days)
    \/ \E member \in EditMembers, text \in {NotGiven, EditText} :
          edit_profile(member, NotGiven, text, NotGiven)
    \/ \E name \in TourneyNames, start_time_parses \in BOOLEAN :
          /\ Events < MaxEvents
          /\ create_tournament(name, start_time_parses)
    \/ \E tournament_id \in 1..MaxEvents : open_signups(tournament_id)
    \/ \E user \in SignupUsers, tournament_id \in 1..MaxEvents :
          signup_button(user, tournament_id)
    \/ \E tournament_id \in 1..MaxEvents : close_signups(tournament_id)
    \/ \E tournament_id \in 1..MaxEvents, podium \in Podiums :
          Events < MaxEvents /\ archive_tournament(tournament_id, podium[1], podium[2], podium[3])

SpecTourney == Init /\ [][NextTourney]_vars

\* the decay task next to players who register and play at different times:
\* "A" and "B" play each other, "C" is given a rating and plays no match
ActivePairs == {<<"A", "B">>, <<"B", "A">>}
ActiveIdle == {"C"}

NextActive ==
    \/ \E user \in Users : register(user)
    \/ \E pair \in ActivePairs, region \in HomeRegion :
          nextId <= MaxMatches /\ report_match(pair[1], pair[2], region)
    \/ \E id \in DOMAIN pending : process_match_record(id)
    \/ \E match_id \in 1..nextId : revert_match(match_id)
    \/ \E player \in ActiveIdle, region \in HomeRegion :
          setCount < MaxSets /\ set_elo(player, region, IdleRating)
    \/ daily_elo_decay
    \/ \E days \in ShortDays : Tick(days)

SpecActive == Init /\ [][NextActive]_vars

\* ================================================================== claims
\* C1: a report followed at once by the revert of the match it returned gives
\* both (distinct) players back their rating in the region, wins, losses and
\* matches_played.
RoundTripRestores ==
    (trip.stage = "reverted" /\ trip.winner_id # trip.loser_id)
    => /\ Snapshot(players[trip.winner_id], trip.region) = trip.winner_before
       /\ Snapshot(players[trip.loser_id], trip.region) = trip.loser_before

RoundTripDone ==
    /\ trip.stage = "reverted"
    /\ trip.winner_id # trip.loser_id
    /\ last = Reply("revert_match", trip.id, "ok")
    /\ ledger[trip.id].elo_change > 0

\* C2: no state in which the batch of a match has been applied to the players
\* and not undone lacks the record of that match.
AppliedMatchIsRecorded ==
    \A id \in DOMAIN ledger : ledger[id].undone = 0 => id \in DOMAIN match_history

\* C3: a match is undone at most once, and a revert of an id that has been
\* reverted replies match-not-found and changes no player.
RevertOnlyOnce ==
    /\ [](\A id \in DOMAIN ledger : ledger[id].undone <= 1)
    /\ [][\A id \in DOMAIN ledger :
             (ledger[id].undone > 0 /\ revert_match(id))
             => /\ last' = Reply("revert_match", id, "Error: Match ID not found.")
                /\ players' = players
                /\ match_history' = match_history]_vars

SecondRevertRejected ==
    /\ last.op = "revert_match"
    /\ last.res = "Error: Match ID not found."
    /\ last.arg \in DOMAIN ledger
    /\ ledger[last.arg].undone = 1

\* C4: once no call is in flight, every player's rating in every region is
\* the starting rating plus the signed deltas of the matches applied and not
\* reverted, and wins, losses and matches_played count those matches.
Live == {id \in DOMAIN ledger : ledger[id].undone = 0}

Gain(entry, player, region) ==
    IF entry.region # region THEN 0
    ELSE (IF entry.winner_id = player THEN entry.elo_change ELSE 0)
         - (IF entry.loser_id = player THEN entry.elo_change ELSE 0)

\* the ids of the ledger are 1 .. nextId - 1; TotalGain sums over the live
\* ones among the first n
RECURSIVE TotalGain(_, _, _)
TotalGain(n, player, region) ==
    IF n = 0 THEN 0
    ELSE (IF n \in Live THEN Gain(ledger[n], player, region) ELSE 0)
         + TotalGain(n - 1, player, region)

Won(player) == Cardinality({id \in Live : ledger[id].winner_id = player})

Lost(player) == Cardinality({id \in Live : ledger[id].loser_id = player})

NoLostUpdates ==
    pending = <<>>
    => \A p \in DOMAIN players :
          /\ \A region \in Regions :
                players[p][elo_field(region)]
                   = STARTING_ELO + TotalGain(nextId - 1, p, region)
          /\ players[p]["wins"] = Won(p)
          /\ players[p]["losses"] = Lost(p)
          /\ players[p]["matches_played"] = Won(p) + Lost(p)

RacedCallsDone ==
    /\ pending = <<>>
    /\ \E a \in DOMAIN ledger, b \in DOMAIN ledger :
          /\ a # b
          /\ ledger[a].raced /\ ledger[a].undone = 1
          /\ ledger[b].raced /\ ledger[b].undone = 0
          /\ {ledger[a].winner_id, ledger[a].loser_id}
                \cap {ledger[b].winner_id, ledger[b].loser_id} # {}

\* C5: a report whose winner is its loser is rejected: an error reply, no
\* match record, the player unchanged.
SelfMatchRejected ==
    [][\A p \in Users, region \in Regions :
          (p \in DOMAIN players /\ report_match(p, p, region))
          => /\ last'.op = "report_match"
             /\ last'.res \notin {"ok", "exception"}
             /\ players' = players
             /\ pending' = pending
             /\ match_history' = match_history]_vars

\* C6: a report naming an unregistered winner or loser replies not-found,
\* creates no record and changes no player.
UnknownPlayerRejected ==
    [][\A winner \in Users, loser \in Users, region \in Regions :
          (/\ winner \notin DOMAIN players \/ loser \notin DOMAIN players
           /\ report_match(winner, loser, region))
          => /\ last' = Reply("report_match", 0, "Winner or loser not found in database.")
             /\ players' = players
             /\ pending' = pending
             /\ match_history' = match_history]_vars

UnknownPlayerReported ==
    /\ last = Reply("report_match", 0, "Winner or loser not found in database.")
    /\ DOMAIN players # {}

NeverNegative ==
    \A p \in DOMAIN players :
        \A f \in EloFields \cup {"wins", "losses", "matches_played"} :
            players[p][f] >= 0

\* C9: a report between two distinct registered players takes
\* round(K * (1 - expected score)) from the ratings and match counts before
\* it, K being 64 when either has played fewer than 10 matches and 32
\* otherwise; it moves that amount from the loser's rating in the region to
\* the winner's, counts a win, a loss and a match played for each, and the
\* record written afterwards stores the amount; between two fresh players it
\* is 32.
ClaimedDelta(winner_data, loser_data) ==
    RoundedGain(IF winner_data["matches_played"] < 10 \/ loser_data["matches_played"] < 10
                THEN 64 ELSE 32,
                get_overall_elo(loser_data) - get_overall_elo(winner_data))

Fresh(player_data) ==
    /\ \A f \in EloFields : player_data[f] = 1200
    /\ player_data["matches_played"] = 0

ApplyMatchEffect ==
    /\ [][nextId' # nextId
          => LET winner == ledger'[nextId].winner_id
                 loser == ledger'[nextId].loser_id
                 field == elo_field(ledger'[nextId].region)
                 delta == ClaimedDelta(players[winner], players[loser])
             IN  winner # loser
                 => /\ players'[winner][field] = players[winner][field] + delta
                    /\ players'[loser][field] = players[loser][field] - delta
                    /\ players'[winner]["wins"] = players[winner]["wins"] + 1
                    /\ players'[winner]["losses"] = players[winner]["losses"]
                    /\ players'[loser]["losses"] = players[loser]["losses"] + 1
                    /\ players'[loser]["wins"] = players[loser]["wins"]
                    /\ \A p \in {winner, loser} :
                          players'[p]["matches_played"] = players[p]["matches_played"] + 1
                    /\ pending'[nextId].elo_change = delta
                    /\ (Fresh(players[winner]) /\ Fresh(players[loser]))
                       => /\ delta = 32
                          /\ players'[winner][field] = 1232
                          /\ players'[loser][field] = 1168]_vars
    /\ [][DOMAIN match_history' \ DOMAIN match_history # {}
          => \E id \in DOMAIN pending :
                /\ id \notin DOMAIN match_history
                /\ DOMAIN match_history' = DOMAIN match_history \cup {id}
                /\ match_history'[id].elo_change = pending[id].elo_change
                /\ match_history'[id].winner_id = pending[id].winner_id
                /\ match_history'[id].loser_id = pending[id].loser_id
                /\ match_history'[id].region = pending[id].region]_vars

EstablishedMatchRecorded ==
    \E id \in DOMAIN match_history :
        /\ id = nextId - 1
        /\ match_history[id].elo_change > 0
        /\ players[match_history[id].winner_id]["matches_played"] > PROVISIONAL_MATCHES
        /\ players[match_history[id].loser_id]["matches_played"] > PROVISIONAL_MATCHES

\* C10: every match record holds the winner id, the loser id, the region, the
\* delta, the rating of the winner and of the loser before the match, a
\* timestamp and the tournament id.
RecordHoldsBeforeRatings ==
    \A id \in DOMAIN match_history :
        {"winner_id", "loser_id", "region", "elo_change", "winner_elo_before",
         "loser_elo_before", "timestamp", "tournament_id"}
            \subseteq DOMAIN match_history[id]

\* C11: a decay run sets every rating of every player last played more than
\* 30 days ago to max(1200, rating - 25) when it exceeds 1200 and leaves it
\* otherwise; it raises no rating, takes none from above 1200 to below it,
\* and leaves the record of a player at or below 1200 in all regions as it is.
Inactive(p) == players[p]["last_played_date"] < now - 30

DecayStep(rating) ==
    IF rating > 1200 THEN (IF rating - 25 >= 1200 THEN rating - 25 ELSE 1200) ELSE rating

DecayRunEffect ==
    [][daily_elo_decay
       => /\ DOMAIN players' = DOMAIN players
          /\ match_history' = match_history
          /\ \A p \in DOMAIN players :
                /\ \A f \in EloFields :
                      /\ players'[p][f] = IF Inactive(p) THEN DecayStep(players[p][f])
                                          ELSE players[p][f]
                      /\ players'[p][f] <= players[p][f]
                      /\ players[p][f] > 1200 => players'[p][f] >= 1200
                /\ \A f \in DOMAIN players[p] \ EloFields : players'[p][f] = players[p][f]
                /\ (\A f \in EloFields : players[p][f] <= 1200) => players'[p] = players[p]
          /\ (\A p \in DOMAIN players :
                 Inactive(p) => \A f \in EloFields : players[p][f] <= 1200)
             => last'.res = "nothing to decay"]_vars

DecayedToFloor ==
    /\ last = Reply("daily_elo_decay", 0, "decayed")
    /\ \E p \in DOMAIN players :
          /\ DOMAIN players = {p}
          /\ Inactive(p)
          /\ players[p]["elo_na"] = 1200
          /\ players[p]["elo_eu"] = 1100

\* C12: under decay runs that keep occurring, once no admin override is left
\* to come, every rating above 1200 of an inactive player comes to 1200, and a
\* decay run leaves the record of an inactive player with no rating above
\* 1200 as it is.
LeftToDecay(p, f) ==
    IF p \in DOMAIN players
    THEN setCount = MaxDecaySets /\ Inactive(p) /\ players[p][f] > 1200
    ELSE FALSE

AtFloor(p, f) == IF p \in DOMAIN players THEN players[p][f] = 1200 ELSE FALSE

DecayConverges ==
    /\ \A p \in Registrants, f \in EloFields : LeftToDecay(p, f) ~> AtFloor(p, f)
    /\ [][\A p \in DOMAIN players :
             (/\ daily_elo_decay
              /\ Inactive(p)
              /\ \A f \in EloFields : players[p][f] <= 1200)
             => players'[p] = players[p]]_vars

ConvergedByDecay ==
    /\ last = Reply("daily_elo_decay", 0, "decayed")
    /\ setCount = MaxDecaySets
    /\ \E p \in DOMAIN players : Inactive(p)
    /\ \A p \in DOMAIN players :
          Inactive(p) => \A f \in EloFields : players[p][f] <= 1200

\* C13 as stated: a second decay run right after a decay run leaves every
\* player as the first run left them.
TwiceIsOnce ==
    \A p \in players_to_decay :
        decay_update(decay_update(players[p])) = decay_update(players[p])

\* C13 as amended: the second run leaves every player as the first left them
\* exactly when no selected player had a rating above 1225 before the first;
\* a rating above 1225 is lowered by a second step, to max(1200, rating - 50).
TwiceIsOnceNearFloor ==
    /\ (\A p \in players_to_decay :
           decay_update(decay_update(players[p])) = decay_update(players[p]))
       <=> (\A p \in players_to_decay : \A f \in EloFields : players[p][f] <= 1225)
    /\ \A p \in players_to_decay : \A f \in EloFields :
          decay_update(decay_update(players[p]))[f]
             = IF players[p][f] > 1200
               THEN (IF players[p][f] - 50 >= 1200 THEN players[p][f] - 50 ELSE 1200)
               ELSE players[p][f]

SecondRunDue ==
    /\ last = Reply("daily_elo_decay", 0, "decayed")
    /\ \E p \in players_to_decay :
          /\ players[p]["elo_na"] = 1225
          /\ players[p]["elo_eu"] = 1200

\* C14: in every interleaving of decay runs with reports and reverts, each
\* step changes a rating by the signed deltas of the batches it commits or
\* undoes, on top of at most one decay step of the rating stored when the run
\* reads it (a step of /elo set apart): no delta is overwritten by a decay
\* value computed from an earlier rating.
DecayKeepsDeltas ==
    [][(setCount' = setCount /\ (players' # players \/ ledger' # ledger))
       => \A p \in DOMAIN players : \A region \in Regions :
             LET f == elo_field(region)
                 moved == IF ledger' = ledger THEN 0
                          ELSE (TotalGain(nextId - 1, p, region))'
                                  - TotalGain(nextId - 1, p, region)
             IN  \/ players'[p][f] = players[p][f] + moved
                 \/ /\ Inactive(p)
                    /\ players'[p][f] = DecayStep(players[p][f]) + moved
                    /\ daily_elo_decay]_vars

DecayedWhileReporting ==
    \E id \in DOMAIN pending :
        /\ pending[id].winner_id # pending[id].loser_id
        /\ pending[id].elo_change > DECAY_AMOUNT
        /\ last = Reply("daily_elo_decay", 0, "decayed")
        /\ players[pending[id].winner_id][elo_field(pending[id].region)]
              = STARTING_ELO + pending[id].elo_change - DECAY_AMOUNT

\* C15: register for an identity without a record creates one with the three
\* ratings at 1200 and wins, losses, matches_played and the streak fields at
\* 0; register for an identity with a record is rejected and leaves every
\* record as it is, in every interleaving of register calls.
RegisterOnce ==
    [][\A user \in Users :
          register(user)
          => IF user \in DOMAIN players
             THEN /\ players' = players
                  /\ last' = Reply("register", 0, "You are already registered!")
             ELSE /\ DOMAIN players' = DOMAIN players \cup {user}
                  /\ \A p \in DOMAIN players : players'[p] = players[p]
                  /\ \A f \in EloFields : players'[user][f] = 1200
                  /\ \A f \in {"wins", "losses", "matches_played", "current_win_streak",
                                "current_loss_streak", "best_win_streak"} :
                        players'[user][f] = 0
                  /\ players'[user]["tournaments_participated"] = {}]_vars

RegisteredTwice ==
    /\ last = Reply("register", 0, "You are already registered!")
    /\ \E p \in DOMAIN players :
          /\ players[p]["matches_played"] > 0
          /\ players[p]["elo_na"] # 1200

\* C16: revert_match given the id a profile shows for a match replies
\* success and deletes the record of that match and of no other.
ShownIdReverts ==
    [][\A player \in Users, id \in DOMAIN match_history :
          revert_profile_id(player, id)
          => /\ last' = Reply("revert_match", id, "ok")
             /\ DOMAIN match_history' = DOMAIN match_history \ {id}]_vars

\* C17: set_elo on a registered player sets that player's rating in that
\* region to the value and changes no other field of the player, no other
\* player and no match record; on an unregistered player it changes nothing.
SetEloWritesThrough ==
    [][\A player \in Users, region \in Regions, value \in SetValues :
          (last'.op = "set_elo" /\ set_elo(player, region, value))
          => /\ match_history' = match_history
             /\ pending' = pending
             /\ IF player \in DOMAIN players
                THEN /\ DOMAIN players' = DOMAIN players
                     /\ players'[player][elo_field(region)] = value
                     /\ \A f \in DOMAIN players[player] \ {elo_field(region)} :
                           players'[player][f] = players[player][f]
                     /\ DOMAIN players'[player] = DOMAIN players[player]
                     /\ \A p \in DOMAIN players \ {player} : players'[p] = players[p]
                ELSE players' = players]_vars

EloSetAfterMatch ==
    /\ last = Reply("set_elo", 0, "ok")
    /\ match_history # <<>>
    /\ \E p \in DOMAIN players :
          /\ players[p]["elo_na"] = -1
          /\ players[p]["matches_played"] > 0
          /\ players[p]["last_played_date"] < now

\* C18 as stated: the delta is an integer from 0 to K, and of two winners
\* against one loser at one K the one of higher aggregate rating gets
\* strictly less.
KFactor(winner_data, loser_data) ==
    IF winner_data["matches_played"] < 10 \/ loser_data["matches_played"] < 10
    THEN 64 ELSE 32

DeltaInRange ==
    /\ \A w \in DOMAIN players, l \in DOMAIN players :
          calculate_elo_change(players[w], players[l])
             \in 0..KFactor(players[w], players[l])
    /\ last.op = "calculate_elo_change" => last.arg \in 0..64

DeltaStrictlyDecreases ==
    /\ DeltaInRange
    /\ \A w1 \in DOMAIN players, w2 \in DOMAIN players, l \in DOMAIN players :
          (/\ get_overall_elo(players[w1]) < get_overall_elo(players[w2])
           /\ KFactor(players[w1], players[l]) = KFactor(players[w2], players[l]))
          => calculate_elo_change(players[w1], players[l])
                > calculate_elo_change(players[w2], players[l])

\* C18 as amended: the delta is an integer from 0 to K, and of two winners
\* against one loser at one K the one of higher aggregate rating never gets
\* more; it gets the same wherever the rounding gives the same integer.
DeltaNeverIncreases ==
    /\ DeltaInRange
    /\ \A w1 \in DOMAIN players, w2 \in DOMAIN players, l \in DOMAIN players :
          (/\ get_overall_elo(players[w1]) < get_overall_elo(players[w2])
           /\ KFactor(players[w1], players[l]) = KFactor(players[w2], players[l]))
          => calculate_elo_change(players[w1], players[l])
                >= calculate_elo_change(players[w2], players[l])

DeltaOnPlateau ==
    /\ get_overall_elo(players["A"]) = 1200
    /\ get_overall_elo(players["B"]) = 1201
    /\ players["A"]["matches_played"] = 9
    /\ players["B"]["matches_played"] = 9
    /\ calculate_elo_change(players["B"], players["A"]) = 32
    /\ last = Reply("calculate_elo_change", 32, "ok")

\* C19: get_player_tier gives S-Tier from 1800, A-Tier for 1600..1799, B-Tier
\* for 1400..1599 and C-Tier for 0..1399, and gives Unranked for no regional
\* and no aggregate rating of a player.
RatingsOf(p) == {players[p][f] : f \in EloFields} \cup {get_overall_elo(players[p])}

TierNeverUnranked ==
    \A p \in DOMAIN players : \A rating \in RatingsOf(p) :
        /\ rating >= 1800 => get_player_tier(rating) = "S-Tier"
        /\ rating \in 1600..1799 => get_player_tier(rating) = "A-Tier"
        /\ rating \in 1400..1599 => get_player_tier(rating) = "B-Tier"
        /\ rating \in 0..1399 => get_player_tier(rating) = "C-Tier"
        /\ get_player_tier(rating) # "Unranked"

\* C20: the delta on a match record is the amount the batch of the report
\* added to the winner's rating in the region and took from the loser's, and
\* a revert takes exactly that amount from the winner and gives it to the
\* loser, whatever decay runs, set_elo calls and matches came in between.
RevertUsesStoredDelta ==
    /\ [][nextId' # nextId
          => LET winner == ledger'[nextId].winner_id
                 loser == ledger'[nextId].loser_id
                 field == elo_field(ledger'[nextId].region)
             IN  /\ pending'[nextId].elo_change = ledger'[nextId].elo_change
                 /\ winner # loser
                    => /\ players'[winner][field] - players[winner][field]
                            = ledger'[nextId].elo_change
                       /\ players[loser][field] - players'[loser][field]
                            = ledger'[nextId].elo_change]_vars
    /\ [](\A id \in DOMAIN match_history :
             match_history[id].elo_change = ledger[id].elo_change)
    /\ [][(nextId' = nextId /\ ledger' # ledger)
          => \A id \in DOMAIN ledger :
                ledger'[id].undone # ledger[id].undone
                => LET winner == match_history[id].winner_id
                       loser == match_history[id].loser_id
                       field == elo_field(match_history[id].region)
                       stored == match_history[id].elo_change
                   IN  IF winner = loser
                       THEN players'[winner][field] = players[winner][field]
                       ELSE /\ players'[winner][field] = players[winner][field] - stored
                            /\ players'[loser][field] = players[loser][field] + stored]_vars

RevertedAfterOverride ==
    \E id \in DOMAIN ledger :
        /\ last = Reply("revert_match", id, "ok")
        /\ ledger[id].winner_id # ledger[id].loser_id
        /\ ledger[id].elo_change > 0
        /\ setCount > 0
        /\ players[ledger[id].winner_id][elo_field(ledger[id].region)]
              = -1 - ledger[id].elo_change

\* C21: a revert leaves the streaks, tournaments_participated, last_played_date
\* and the ratings of the two other regions of the winner and the loser as
\* they were, changes no other player, and deletes the reverted record only.
RevertKeptFields ==
    {"current_win_streak", "current_loss_streak", "best_win_streak",
     "tournaments_participated", "last_played_date"}

RevertLeavesTheRest ==
    [][(nextId' = nextId /\ ledger' # ledger) =>
         \E id \in DOMAIN ledger :
            /\ ledger'[id].undone = ledger[id].undone + 1
            /\ LET pair == {ledger[id].winner_id, ledger[id].loser_id}
                   kept == RevertKeptFields
                           \cup (EloFields \ {elo_field(ledger[id].region)})
               IN  /\ DOMAIN players' = DOMAIN players
                   /\ \A p \in DOMAIN players \ pair : players'[p] = players[p]
                   /\ \A p \in pair, f \in kept : players'[p][f] = players[p][f]
                   /\ match_history' = Without(match_history, id)]_vars

\* a match reverted whose loser keeps a loss streak without a loss, next to a
\* registered player who took no part in it
RevertedStreakKept ==
    \E id \in DOMAIN ledger :
        /\ last = Reply("revert_match", id, "ok")
        /\ players[ledger[id].loser_id]["current_loss_streak"] = 1
        /\ players[ledger[id].loser_id]["losses"] = 0
        /\ DOMAIN players \ {ledger[id].winner_id, ledger[id].loser_id} # {}

\* C22: a match record never changes once it exists, and it ceases to exist
\* only in a revert_match of its own id; register, a report, decay, set_elo,
\* edit_profile and the tournament commands leave every existing record alone.
RecordsOnlyReverted ==
    [][match_history' # match_history =>
         \A id \in DOMAIN match_history :
            IF id \in DOMAIN match_history'
            THEN match_history'[id] = match_history[id]
            ELSE /\ last' = Reply("revert_match", id, "ok")
                 /\ ledger'[id].undone = ledger[id].undone + 1
                 /\ DOMAIN match_history' = DOMAIN match_history \ {id}]_vars

\* a record still there after a profile was edited and a sign-up was taken
RecordOutlivesCommands ==
    \E id \in DOMAIN match_history :
        /\ last = Reply("signup_button", 1, "ok")
        /\ players["A"]["clan"] = EditText
        /\ match_history[id].winner_id = "A"

\* C23: best_win_streak of a player never decreases in any step, and in every
\* state it is at least the player's current_win_streak.
BestStreakIsWatermark ==
    /\ [](\A p \in DOMAIN players :
             players[p]["best_win_streak"] >= players[p]["current_win_streak"])
    /\ [][players' # players =>
             \A p \in DOMAIN players :
                players'[p]["best_win_streak"] >= players[p]["best_win_streak"]]_vars

\* a player whose win streak has ended and whose best streak stays
StreakEndedBestStays ==
    \E p \in DOMAIN players :
        /\ players[p]["best_win_streak"] >= 1
        /\ players[p]["current_win_streak"] = 0
        /\ players[p]["current_loss_streak"] >= 1
        /\ players[p]["wins"] >= 1

\* C24: a report stamps last_played_date = now on both players and register
\* stamps it on the new player, nothing else moves the stamp, and a decay run
\* less than DECAY_DAYS_INACTIVE days after a player's stamp changes none of
\* that player's ratings.
Stamp(p) == players[p]["last_played_date"]

DecaySparesActive ==
    [][/\ nextId' # nextId =>
             /\ players'[ledger'[nextId].winner_id]["last_played_date"] = now
             /\ players'[ledger'[nextId].loser_id]["last_played_date"] = now
       /\ \A p \in DOMAIN players' \ DOMAIN players :
             players'[p]["last_played_date"] = now
       /\ \A p \in DOMAIN players :
             players'[p]["last_played_date"] # Stamp(p) =>
                /\ nextId' # nextId
                /\ p \in {ledger'[nextId].winner_id, ledger'[nextId].loser_id}
       /\ (players' # players /\ last'.op = "daily_elo_decay") =>
             \A p \in DOMAIN players :
                now - Stamp(p) < DECAY_DAYS_INACTIVE =>
                   \A f \in EloFields : players'[p][f] = players[p][f]]_vars

\* a run that decayed the idle player and left the winner of a match played
\* sixteen days ago above STARTING_ELO
ActiveWinnerSpared ==
    \E p \in took_part, q \in DOMAIN players \ took_part :
        /\ last = Reply("daily_elo_decay", 0, "decayed")
        /\ now - Stamp(p) \in 1..(DECAY_DAYS_INACTIVE - 1)
        /\ players[p]["elo_na"] > STARTING_ELO + DECAY_AMOUNT
        /\ players[q]["elo_na"] = IdleRating - DECAY_AMOUNT

\* C25: in every state every player has wins + losses = matches_played, a
\* player who was reported as winner and loser of one match included.
CountersAddUp ==
    \A p \in DOMAIN players :
        players[p]["wins"] + players[p]["losses"] = players[p]["matches_played"]

\* a player who won and lost one match against themself and whose profile
\* was edited
SelfMatchCounted ==
    \E id \in DOMAIN ledger :
        /\ ledger[id].winner_id = ledger[id].loser_id
        /\ players[ledger[id].winner_id]["wins"] = 1
        /\ players[ledger[id].winner_id]["losses"] = 1
        /\ players[ledger[id].winner_id]["matches_played"] = 2
        /\ players[ledger[id].winner_id]["clan"] = EditText

\* C26: a committed match and a revert each leave, in every region, the sum
\* of all players' ratings unchanged: what the winner gains (gives back) in
\* the match's region the loser loses (gets back), and no rating of another
\* region moves.
RECURSIVE RegionTotal(_, _, _)
RegionTotal(docs, who, field) ==
    IF who = {} THEN 0
    ELSE LET p == CHOOSE q \in who : TRUE
         IN  docs[p][field] + RegionTotal(docs, who \ {p}, field)

MatchesZeroSum ==
    [][ledger' # ledger =>
         /\ DOMAIN players' = DOMAIN players
         /\ \A field \in EloFields :
               RegionTotal(players', DOMAIN players, field)
                  = RegionTotal(players, DOMAIN players, field)
         /\ \E id \in DOMAIN ledger' :
               /\ id \notin DOMAIN ledger \/ ledger'[id] # ledger[id]
               /\ LET winner_id == ledger'[id].winner_id
                      loser_id == ledger'[id].loser_id
                      field == elo_field(ledger'[id].region)
                  IN  /\ winner_id # loser_id =>
                            players'[winner_id][field] - players[winner_id][field]
                               = players[loser_id][field] - players'[loser_id][field]
                      /\ \A p \in DOMAIN players, other \in EloFields \ {field} :
                            players'[p][other] = players[p][other]]_vars

\* a match in EU between two players, its delta on one and off the other
ZeroSumMatchDone ==
    \E id \in DOMAIN ledger :
        /\ ledger[id].region = "EU"
        /\ ledger[id].winner_id # ledger[id].loser_id
        /\ ledger[id].elo_change > 0
        /\ players[ledger[id].winner_id]["elo_eu"] = STARTING_ELO + ledger[id].elo_change
        /\ players[ledger[id].loser_id]["elo_eu"] = STARTING_ELO - ledger[id].elo_change

\* C27: for every player the counters the profile shows add up: wins is
\* wins_na + wins_eu + wins_as and losses is losses_na + losses_eu + losses_as.
RegionalCountersAddUp ==
    \A p \in DOMAIN players :
        /\ players[p]["wins"]
              = Get(players[p], "wins_na", 0) + Get(players[p], "wins_eu", 0)
                + Get(players[p], "wins_as", 0)
        /\ players[p]["losses"]
              = Get(players[p], "losses_na", 0) + Get(players[p], "losses_eu", 0)
                + Get(players[p], "losses_as", 0)

====
